---- MODULE Spec2Model ----
(***************************************************************************)
(* A model of the hand-written CNN training stack: the VGG16 network       *)
(* (models/VGG16.py on top of models/CNN.py) and the layer primitives of   *)
(* common/layers.py.                                                       *)
(*                                                                         *)
(* Tensors are objects: a tensor is an index into `heap`, so that "the     *)
(* same tensor object" (Python `is`) is equality of indices and an        *)
(* in-place update is a change of heap[id].  A tensor's numeric content is *)
(* abstracted to a version number `val`; its shape is kept, because the    *)
(* layers' forward passes raise on incompatible shapes.                    *)
(***************************************************************************)
EXTENDS Integers, Sequences, FiniteSets, TLC

VARIABLES
    params,     \* VGG16.params: parameter name -> tensor id
    heap,       \* tensor id -> [val, shape]: the tensor objects
    layers,     \* VGG16.layers: the OrderedDict's keys in insertion order
    layerW,     \* layer name -> tensor id bound to the layer's W attribute
    layerB,     \* layer name -> tensor id bound to the layer's b attribute
    layerdW,    \* layer name -> the layer's dW slot
    layerdb,    \* layer name -> the layer's db slot
    file,       \* the pickled parameter file (params.pkl)
    gcall,      \* number of gradient calls made so far
    lastOp,     \* the operation that ran last
    result,     \* "ok" when it returned, "raised" when it raised
    trace,      \* the layer calls the last operation made, in order
    ret,        \* what the last operation returned
    evalArgs,   \* the arguments of the accuracy_f1score call
    bn,         \* a BatchNormalization layer instance
    bnOut,      \* what its last forward call was given and computed
    bnTrained,  \* number of training-mode forward calls made on it
    swl,        \* a SoftmaxWithLoss layer instance
    swlOut,     \* what its last backward returned
    lyr,        \* a Relu, Affine, Convolution or Pooling layer instance
    lyrCalls,   \* number of forward calls made on it
    lyrOut,     \* what its last forward or backward call did
    net         \* the attributes CNN.__init__ sets on a network under construction

netVars == <<params, heap, layers, layerW, layerB, layerdW, layerdb, file,
             gcall, lastOp, result, trace, ret, evalArgs>>
bnVars == <<bn, bnOut, bnTrained>>
swlVars == <<swl, swlOut>>
lyrVars == <<lyr, lyrCalls, lyrOut>>
vars == <<netVars, bnVars, swlVars, lyrVars, net>>

(***************************************************************************)
(* Bounds of the model.                                                    *)
(***************************************************************************)
MaxGradCalls == 2     \* gradient calls per run
MaxUpdates == 1       \* optimizer steps per run
MaxLoads == 1         \* load_params calls that find a file, per run
OutputSize == 2       \* output_size, the number of classes of the metrics
MaxSamples == 3       \* x.shape[0] of an evaluation set
MaxBatch == 2         \* batch_size of an evaluation
MaxX == 1             \* largest entry of a BatchNormalization input
MaxTrain == 1         \* training-mode forward calls on the BatchNormalization layer
MaxRows == 2          \* batch size of the SoftmaxWithLoss inputs
MaxForwards == 2      \* forward calls on the single layer
MaxCuda == 2          \* largest index of an accelerator device

(***************************************************************************)
(* Program constants of VGG16.__init__.                                    *)
(***************************************************************************)
FilterSize == 3       \* conv_param["filter_size"]
InputChannels == 3    \* input_dim[0]
InputSide == 48       \* input_dim[1] = input_dim[2]
PoolStages == 5       \* for i in range(1, 6)
NumConv == 13         \* for i in range(1, 14)
NumAffine == 3        \* for i in range(1, 4)
ConvPad == 1          \* Convolution(..., stride=1, pad=1)
ConvStride == 1
PoolSize == 2         \* Pooling(pool_h=2, pool_w=2, stride=2)
PoolStride == 2

NumParams == NumConv + NumAffine

\* range(2 if i not in range(3, 6) else 3)
Reps(i) == IF i \in 3..5 THEN 3 ELSE 2

RECURSIVE Flatten(_)
Flatten(ss) == IF ss = <<>> THEN <<>> ELSE Head(ss) \o Flatten(Tail(ss))

\* filter_nums: [3], then 2**(i+5) Reps(i) times for i in 1..4, then [2**9]*3.
\* Python's filter_nums[i] is FilterNums[i + 1].
FilterNums ==
    <<InputChannels>>
    \o Flatten([i \in 1..4 |-> [j \in 1..Reps(i) |-> 2 ^ (i + 5)]])
    \o [j \in 1..3 |-> 2 ^ 9]

fc_hidden_size == <<512, 4096, 4096>>
fc_output_size == <<4096, 4096, 43>>

ParamNames == {"W", "b"} \X (1..NumParams)

\* The shape each parameter is created with.
InitShape(name) ==
    LET k == name[2] IN
    IF k <= NumConv
    THEN IF name[1] = "W"
         THEN <<FilterNums[k + 1], FilterNums[k], FilterSize, FilterSize>>
         ELSE <<FilterNums[k + 1]>>
    ELSE IF name[1] = "W"
         THEN <<fc_hidden_size[k - NumConv], fc_output_size[k - NumConv]>>
         ELSE <<fc_output_size[k - NumConv]>>

\* The params dict is filled W1, b1, W2, b2, ...: the k-th pair gets the
\* tensor objects 2k-1 and 2k.
InitId(name) == 2 * name[2] - (IF name[1] = "W" THEN 1 ELSE 0)

InitParams == [n \in ParamNames |-> InitId(n)]

InitHeap ==
    [id \in 1..(2 * NumParams) |->
        LET n == CHOOSE m \in ParamNames : InitId(m) = id
        IN  [val |-> 0, shape |-> InitShape(n)]]

\* idx_c before stage i: the number of Conv layers of the earlier stages.
RECURSIVE ConvsBefore(_)
ConvsBefore(i) == IF i <= 1 THEN 0 ELSE ConvsBefore(i - 1) + Reps(i - 1)

\* The stage loop with pooling after the first three stages only.
StagePoolsThrice(i) ==
    Flatten([j \in 1..Reps(i) |->
                << <<"Conv", ConvsBefore(i) + j>>, <<"Relu", ConvsBefore(i) + j>> >>])
    \o (IF i <= 3 THEN << <<"Pool", i>> >> ELSE <<>>)

\* One stage of the layer-building loop: Reps(i) times Conv, Relu; then Pool.
Stage(i) ==
    Flatten([j \in 1..Reps(i) |->
                << <<"Conv", ConvsBefore(i) + j>>, <<"Relu", ConvsBefore(i) + j>> >>])
    \o << <<"Pool", i>> >>

\* Affine_i, followed by a Relu except after the last one.
FcBlock(i, idx_c) ==
    IF i # NumAffine THEN << <<"Affine", i>>, <<"Relu", idx_c + i>> >>
    ELSE << <<"Affine", i>> >>

BuildLayers ==
    Flatten([i \in 1..PoolStages |-> Stage(i)])
    \o Flatten([i \in 1..NumAffine |-> FcBlock(i, ConvsBefore(PoolStages + 1))])

LastLayer == <<"SoftmaxWithLoss", 0>>

ConvLayers == {"Conv"} \X (1..NumConv)
AffineLayers == {"Affine"} \X (1..NumAffine)
ParamLayers == ConvLayers \cup AffineLayers

\* The constructor handing Affine_i the parameters W_i, b_i (idx_c forgotten).
CtorIndexWithoutOffset(L) == L[2]

\* The parameter index the constructor hands to a parameterized layer.
CtorIndex(L) ==
    IF L[1] = "Conv" THEN L[2] ELSE ConvsBefore(PoolStages + 1) + L[2]

NoGrad == [call |-> 0, layer |-> <<"None", 0>>, slot |-> "none"]

(***************************************************************************)
(* Shapes.  An activation's shape is kept without its batch axis: <<C,H,W>> *)
(* for an image batch, <<F>> for a feature batch.                          *)
(***************************************************************************)
RECURSIVE Prod(_)
Prod(s) == IF s = <<>> THEN 1 ELSE Head(s) * Prod(Tail(s))

Raised == [ok |-> FALSE, shape |-> <<>>]
Returned(shape) == [ok |-> TRUE, shape |-> shape]

\* b is added to a result whose last axis has `n` entries.
Broadcasts(bshape, n) == Len(bshape) = 1 /\ bshape[1] \in {1, n}

\* Convolution.forward: W and x are unpacked into four axes each, the column
\* matrix (C*FH*FW wide) is multiplied by the reshaped W, b is added.
ConvolutionForward(wshape, bshape, x, stride, pad) ==
    IF /\ Len(wshape) = 4
       /\ Len(x) = 3
       /\ x[1] = wshape[2]
       /\ x[2] + 2 * pad >= wshape[3]
       /\ x[3] + 2 * pad >= wshape[4]
       /\ Broadcasts(bshape, wshape[1])
    THEN Returned(<<wshape[1],
                    1 + ((x[2] + 2 * pad - wshape[3]) \div stride),
                    1 + ((x[3] + 2 * pad - wshape[4]) \div stride)>>)
    ELSE Raised

\* Pooling.forward: x is unpacked into four axes; one output per window.
PoolingForward(x, pool_h, pool_w, stride) ==
    IF Len(x) = 3 /\ x[2] >= pool_h /\ x[3] >= pool_w
    THEN Returned(<<x[1], 1 + ((x[2] - pool_h) \div stride),
                          1 + ((x[3] - pool_w) \div stride)>>)
    ELSE Raised

\* Affine.forward: x is flattened to (N, F) and multiplied by W; torch.matmul
\* needs F to equal W's last-but-one axis.
AffineForward(wshape, bshape, x) ==
    LET n == Len(wshape) IN
    IF /\ n >= 2
       /\ wshape[n - 1] = Prod(x)
       /\ Broadcasts(bshape, wshape[n])
    THEN Returned(SubSeq(wshape, 1, n - 2) \o <<wshape[n]>>)
    ELSE Raised

\* layer.forward(x) of the layer named L, in the current state.
LayerForward(L, x) ==
    CASE L[1] = "Conv" ->
            ConvolutionForward(heap[layerW[L]].shape, heap[layerB[L]].shape, x,
                               ConvStride, ConvPad)
      [] L[1] = "Pool" -> PoolingForward(x, PoolSize, PoolSize, PoolStride)
      [] L[1] = "Affine" ->
            AffineForward(heap[layerW[L]].shape, heap[layerB[L]].shape, x)
      [] OTHER -> Returned(x)

(***************************************************************************)
(* Layer calls.  An event is one forward or backward call; `out` numbers   *)
(* the tensor it returns (its position in the trace) and `inp` is the      *)
(* number of the tensor it was given: 0 is the caller's x, -1 the literal  *)
(* dout = 1 of gradient.                                                   *)
(***************************************************************************)
Event(L, op, inp, out) == [layer |-> L, op |-> op, inp |-> inp, out |-> out]

InputShape == <<InputChannels, InputSide, InputSide>>

\* CNN.predict's loop from the i-th layer on, x = layer.forward(x): whether
\* it gets through every layer, and the number of forward calls it makes (a
\* layer that raises ends it).
RECURSIVE RunFrom(_, _)
RunFrom(i, shape) ==
    IF i > Len(layers) THEN [ok |-> TRUE, calls |-> Len(layers)]
    ELSE LET r == LayerForward(layers[i], shape) IN
         IF r.ok THEN RunFrom(i + 1, r.shape) ELSE [ok |-> FALSE, calls |-> i]

\* predict(x) appended to the calls already in tr: the i-th layer is given x
\* (tensor 0) or what the layer before it returned.
Predict(tr) ==
    LET run == RunFrom(1, InputShape) IN
    [ok |-> run.ok,
     trace |-> tr \o [i \in 1..run.calls |->
                        Event(layers[i], "forward",
                              IF i = 1 THEN 0 ELSE Len(tr) + i - 1, Len(tr) + i)]]

\* VGG16.loss: predict, then last_layer.forward(y, t).
Loss(tr) ==
    LET p == Predict(tr) IN
    IF p.ok
    THEN [p EXCEPT !.trace = Append(p.trace, Event(LastLayer, "forward", Len(p.trace),
                                                   Len(p.trace) + 1))]
    ELSE p

\* layers = list(self.layers.values()); layers.reverse()
Reverse(s) == [i \in 1..Len(s) |-> s[Len(s) + 1 - i]]

\* dout = self.last_layer.backward(1), then for layer in layers:
\* dout = layer.backward(dout): each call is given what the call before it
\* returned.
Backward(ls, tr) ==
    tr \o [i \in 1..(Len(ls) + 1) |->
             IF i = 1 THEN Event(LastLayer, "backward", -1, Len(tr) + 1)
             ELSE Event(ls[i - 1], "backward", Len(tr) + i - 1, Len(tr) + i)]

\* The layer gradient() reads grads["W<k>"], grads["b<k>"] from.
GradLayer(k) == IF k <= NumConv THEN <<"Conv", k>> ELSE <<"Affine", k - NumConv>>

GradKeys == {"W", "b"} \X ((1..NumConv) \cup ((NumConv + 1)..NumParams))

NoMetrics == [accuracy |-> <<0, 0>>, f1 |-> <<0, 0>>, cm |-> <<>>,
              precision |-> <<>>, recall |-> <<>>, divisions |-> {}]

Ret(kind, grads, metrics) == [kind |-> kind, grads |-> grads, metrics |-> metrics]
NoRet == Ret("none", <<>>, NoMetrics)

(***************************************************************************)
(* The network's operations.                                               *)
(***************************************************************************)
\* A backward pass that applies the gradient to the parameters in place.
LayerCallsApplyGradient ==
    /\ heap' = [id \in DOMAIN heap |->
                  IF id \in {params[n] : n \in DOMAIN params}
                  THEN [heap[id] EXCEPT !.val = @ + 1] ELSE heap[id]]
    /\ UNCHANGED <<params, layerW, layerB>>

\* What forward and backward calls do to the parameters: the layers read
\* self.W and self.b and assign only their own caches and dW / db.
LayerCallsKeepParameters == UNCHANGED <<params, heap, layerW, layerB>>

predict ==
    \E p \in {Predict(<<>>)} :
    /\ lastOp' = "predict"
    /\ result' = IF p.ok THEN "ok" ELSE "raised"
    /\ trace' = p.trace
    /\ ret' = IF p.ok THEN Ret("out", <<>>, NoMetrics) ELSE NoRet
    /\ LayerCallsKeepParameters
    /\ UNCHANGED <<layers, layerdW, layerdb, file, gcall, evalArgs>>

loss ==
    \E p \in {Loss(<<>>)} :
    /\ lastOp' = "loss"
    /\ result' = IF p.ok THEN "ok" ELSE "raised"
    /\ trace' = p.trace
    /\ ret' = IF p.ok THEN Ret("loss", <<>>, NoMetrics) ELSE NoRet
    /\ LayerCallsKeepParameters
    /\ UNCHANGED <<layers, layerdW, layerdb, file, gcall, evalArgs>>

\* Convolution.backward / Affine.backward store dW and db on the layer.
Token(call, L, slot) == [call |-> call, layer |-> L, slot |-> slot]

gradient ==
    \E p \in {Loss(<<>>)} :
    LET call == gcall + 1
        tr2 == Backward(Reverse(layers), p.trace)
        ran == {layers[i] : i \in 1..Len(layers)} \cap ParamLayers
        dW == [L \in ParamLayers |->
                 IF L \in ran THEN Token(call, L, "dW") ELSE layerdW[L]]
        db == [L \in ParamLayers |->
                 IF L \in ran THEN Token(call, L, "db") ELSE layerdb[L]]
        grads == [n \in GradKeys |->
                    IF n[1] = "W" THEN dW[GradLayer(n[2])] ELSE db[GradLayer(n[2])]]
    IN
    /\ gcall < MaxGradCalls
    /\ gcall' = call
    /\ lastOp' = "gradient"
    /\ IF p.ok
       THEN /\ result' = "ok"
            /\ trace' = tr2
            /\ layerdW' = dW
            /\ layerdb' = db
            /\ ret' = Ret("grads", grads, NoMetrics)
       ELSE /\ result' = "raised"
            /\ trace' = p.trace
            /\ ret' = NoRet
            /\ UNCHANGED <<layerdW, layerdb>>
    /\ LayerCallsKeepParameters
    /\ UNCHANGED <<layers, file, evalArgs>>

(***************************************************************************)
(* Exact arithmetic for the metrics.  A number is <<n, d>> in lowest terms *)
(* with d > 0; <<0, 0>> is the nan that numpy's float division 0/0 yields  *)
(* and <<1, 0>> the inf of x/0.  The metrics the claims speak of (0 and 1) *)
(* are exact in floating point as well.                                    *)
(***************************************************************************)
RECURSIVE GCD(_, _)
GCD(a, b) == IF b = 0 THEN a ELSE GCD(b, a % b)

NaN == <<0, 0>>
Frac(n, d) ==
    IF d = 0 THEN (IF n = 0 THEN NaN ELSE <<1, 0>>)
    ELSE LET g == GCD(n, d) IN <<n \div g, d \div g>>
IsNum(a) == a[2] # 0
FAdd(a, b) == IF IsNum(a) /\ IsNum(b) THEN Frac(a[1] * b[2] + b[1] * a[2], a[2] * b[2])
              ELSE NaN
FMul(a, b) == IF IsNum(a) /\ IsNum(b) THEN Frac(a[1] * b[1], a[2] * b[2]) ELSE NaN
FDiv(a, b) == IF IsNum(a) /\ IsNum(b) THEN Frac(a[1] * b[2], a[2] * b[1]) ELSE NaN

Classes == 0..(OutputSize - 1)

RECURSIVE SumTo(_, _)
\* f[0] + ... + f[n]
SumTo(f, n) == IF n < 0 THEN 0 ELSE f[n] + SumTo(f, n - 1)

RECURSIVE FSumTo(_, _)
FSumTo(f, n) == IF n < 0 THEN <<0, 1>> ELSE FAdd(f[n], FSumTo(f, n - 1))

\* np.mean over the per-class list
Mean(f) == FDiv(FSumTo(f, OutputSize - 1), <<OutputSize, 1>>)

\* torch.argmax(t, dim=1) of one row: the first index holding the maximum
Argmax(row) ==
    CHOOSE c \in Classes :
        /\ \A d \in Classes : row[d] <= row[c]
        /\ \A d \in Classes : d < c => row[d] < row[c]

OneHot(c) == [d \in Classes |-> IF d = c THEN 1 ELSE 0]

\* if t.ndim != 1: t = torch.argmax(t, dim=1)
ToLabels(t) ==
    IF t.ndim # 1 THEN [j \in 1..Len(t.rows) |-> Argmax(t.rows[j])] ELSE t.labels

\* The evaluation sets offered: n samples with labels lab (given as class
\* indices or one-hot rows), the class the network predicts for each, and a
\* batch size.
SeqsOfLen(S, n) == [1..n -> S]
EvalInputs(maxN, maxB, onehots) ==
    UNION {
        { [t |-> IF oh THEN [ndim |-> 2, labels |-> <<>>,
                             rows |-> [j \in 1..n |-> OneHot(lab[j])]]
                 ELSE [ndim |-> 1, labels |-> lab, rows |-> <<>>],
           pred |-> pr, bs |-> b]
          : lab \in SeqsOfLen(Classes, n), pr \in SeqsOfLen(Classes, n),
            b \in 1..maxB, oh \in onehots }
        : n \in 0..maxN }

\* The evaluations the network's callers make between its other operations:
\* at most one sample, labelled either way, classified rightly.
SmallEvals == {e \in EvalInputs(1, 1, BOOLEAN) : e.pred = ToLabels(e.t)}

NoEval == [t |-> [ndim |-> 1, labels |-> <<>>, rows |-> <<>>], pred |-> <<>>, bs |-> 0]

\* The predict calls of the batch loop, one per full batch.
RECURSIVE PredictBatches(_, _)
PredictBatches(k, tr) ==
    IF k = 0 THEN [ok |-> TRUE, trace |-> tr]
    ELSE LET p == Predict(tr) IN
         IF p.ok THEN PredictBatches(k - 1, p.trace) ELSE p

\* confusion_matrix[tt[j]][y[j]] += 1 for the samples j = from..to
RECURSIVE Count(_, _, _, _, _)
Count(cm, lab, pred, from, to) ==
    IF from > to THEN cm
    ELSE Count([cm EXCEPT ![lab[from]][pred[from]] = @ + 1], lab, pred, from + 1, to)

\* for i in range(int(x.shape[0] / batch_size)): count the i-th batch
RECURSIVE CountBatches(_, _, _, _, _, _)
CountBatches(cm, lab, pred, bs, i, nb) ==
    IF i >= nb THEN cm
    ELSE CountBatches(Count(cm, lab, pred, i * bs + 1, (i + 1) * bs),
                      lab, pred, bs, i + 1, nb)

\* precision[i]: 0 when the column sum is 0, else cm[i][i] / column sum
PrecisionDivider(cm) == [c \in Classes |-> SumTo([r \in Classes |-> cm[r][c]], OutputSize - 1)]
RecallDivider(cm) == [c \in Classes |-> SumTo(cm[c], OutputSize - 1)]

\* The divider test left out.
ZeroDividerUnchecked(divider, c) == FALSE

\* if precision_devider[i] == 0 (and the same test on recall_devider)
ZeroDivider(divider, c) == divider[c] = 0

PerClass(cm, divider) ==
    [c \in Classes |-> IF ZeroDivider(divider, c) THEN <<0, 1>>
                       ELSE Frac(cm[c][c], divider[c])]

\* The per-class divisions performed: each by the class's divider.
Divisions(divider, what) ==
    {[of |-> what, class |-> c, by |-> divider[c]]
        : c \in {d \in Classes : ~ZeroDivider(divider, d)}}

Metrics(e) ==
    LET lab == ToLabels(e.t)
        n == Len(e.pred)
        cm == CountBatches([a \in Classes |-> [b \in Classes |-> 0]],
                           lab, e.pred, e.bs, 0, n \div e.bs)
        precision == PerClass(cm, PrecisionDivider(cm))
        recall == PerClass(cm, RecallDivider(cm))
        p == Mean(precision)
        r == Mean(recall)
    IN  [accuracy |-> Frac(SumTo([c \in Classes |-> cm[c][c]], OutputSize - 1), n),
         f1 |-> FDiv(FMul(<<2, 1>>, FMul(p, r)), FAdd(p, r)),
         cm |-> cm,
         precision |-> precision,
         recall |-> recall,
         divisions |-> Divisions(PrecisionDivider(cm), "precision")
                       \cup Divisions(RecallDivider(cm), "recall")]

accuracy_f1score(e) ==
    \E p \in {PredictBatches(Len(e.pred) \div e.bs, <<>>)} :
    /\ lastOp' = "accuracy_f1score"
    /\ evalArgs' = e
    /\ result' = IF p.ok THEN "ok" ELSE "raised"
    /\ trace' = p.trace
    /\ ret' = IF p.ok THEN Ret("metrics", <<>>, Metrics(e)) ELSE NoRet
    /\ LayerCallsKeepParameters
    /\ UNCHANGED <<layers, layerdW, layerdb, file, gcall>>

(***************************************************************************)
(* The optimizer of the trainer: it walks the parameter mapping and        *)
(* updates every tensor in it in place.                                    *)
(***************************************************************************)
ParamTensors == {params[n] : n \in DOMAIN params}

optimizer_update ==
    /\ \A id \in ParamTensors : heap[id].val < MaxUpdates
    /\ heap' = [id \in DOMAIN heap |->
                  IF id \in ParamTensors THEN [heap[id] EXCEPT !.val = @ + 1]
                  ELSE heap[id]]
    /\ lastOp' = "optimizer_update"
    /\ result' = "ok"
    /\ trace' = <<>>
    /\ ret' = NoRet
    /\ UNCHANGED <<params, layers, layerW, layerB, layerdW, layerdb, file, gcall, evalArgs>>

(***************************************************************************)
(* Parameter persistence.                                                  *)
(***************************************************************************)
NoFile == [exists |-> FALSE, data |-> <<>>]

save_params ==
    /\ file' = [exists |-> TRUE, data |-> [n \in DOMAIN params |-> heap[params[n]]]]
    /\ lastOp' = "save_params"
    /\ result' = "ok"
    /\ trace' = <<>>
    /\ ret' = NoRet
    /\ UNCHANGED <<params, heap, layers, layerW, layerB, layerdW, layerdb, gcall, evalArgs>>

\* enumerate(["Conv1", "Affine1", "Affine2"]): the layer and the i + 1 it is
\* rebound to.
Rebound == { <<<<"Conv", 1>>, 1>>, <<<<"Affine", 1>>, 2>>, <<<<"Affine", 2>>, 3>> }

ReboundIndex(L) == (CHOOSE r \in Rebound : r[1] = L)[2]

\* pickle.load builds new tensor objects, in the order of the saved mapping.
load_params ==
    /\ lastOp' = "load_params"
    /\ trace' = <<>>
    /\ ret' = NoRet
    /\ IF file.exists
       THEN LET base == Len(heap)
                loaded == [n \in DOMAIN file.data |-> base + InitId(n)]
                newParams == [n \in DOMAIN params \cup DOMAIN loaded |->
                                 IF n \in DOMAIN loaded THEN loaded[n] ELSE params[n]]
            IN  /\ Len(heap) < 2 * NumParams * (1 + MaxLoads)
                /\ heap' = heap \o [i \in 1..(2 * NumParams) |->
                                      file.data[CHOOSE n \in DOMAIN loaded : InitId(n) = i]]
                /\ params' = newParams
                /\ layerW' = [L \in DOMAIN layerW |->
                                IF L \in {r[1] : r \in Rebound}
                                THEN newParams[<<"W", ReboundIndex(L)>>] ELSE layerW[L]]
                /\ layerB' = [L \in DOMAIN layerB |->
                                IF L \in {r[1] : r \in Rebound}
                                THEN newParams[<<"b", ReboundIndex(L)>>] ELSE layerB[L]]
                /\ result' = "ok"
       ELSE /\ result' = "raised"
            /\ UNCHANGED <<params, heap, layerW, layerB>>
    /\ UNCHANGED <<layers, layerdW, layerdb, file, gcall, evalArgs>>

(***************************************************************************)
(* VGG16.__init__                                                          *)
(***************************************************************************)
NetCtor ==
    /\ params = InitParams
    /\ heap = InitHeap
    /\ layers = BuildLayers
    /\ layerW = [L \in ParamLayers |-> InitParams[<<"W", CtorIndex(L)>>]]
    /\ layerB = [L \in ParamLayers |-> InitParams[<<"b", CtorIndex(L)>>]]
    /\ layerdW = [L \in ParamLayers |-> NoGrad]
    /\ layerdb = [L \in ParamLayers |-> NoGrad]
    /\ file = NoFile
    /\ gcall = 0
    /\ lastOp = "init"
    /\ result = "ok"
    /\ trace = <<>>
    /\ ret = NoRet

NetInit == NetCtor /\ evalArgs = NoEval

(***************************************************************************)
(* BatchNormalization, on inputs with one feature (D = 1).  The input is a *)
(* batch of two numbers, given as (2, 1) or as (2, 1, 1, 1).  std is kept  *)
(* as the number under the root: Std(v) stands for sqrt(v + 10e-7).        *)
(***************************************************************************)
None == [none |-> TRUE, v |-> <<>>]
Some(v) == [none |-> FALSE, v |-> v]

FSub(a, b) == FAdd(a, FMul(<<-1, 1>>, b))

RECURSIVE FSumSeq(_)
FSumSeq(s) == IF s = <<>> THEN <<0, 1>> ELSE FAdd(Head(s), FSumSeq(Tail(s)))

\* torch.mean(x, dim=0)
FMean(s) == FDiv(FSumSeq(s), <<Len(s), 1>>)

Std(v) == [root_of_eps_plus |-> v]
\* xc / std
Normalised(xc, std) == [xc |-> xc, over |-> std]

momentum == <<9, 10>>

\* momentum * running + (1 - momentum) * batch statistic
MovingAverage(running, stat) ==
    FAdd(FMul(momentum, running), FMul(FSub(<<1, 1>>, momentum), stat))

BNInputs ==
    {[data |-> [j \in 1..2 |-> <<d[j], 1>>], shape |-> sh]
        : d \in [1..2 -> 0..MaxX], sh \in {<<2, 1>>, <<2, 1, 1, 1>>}}

\* if train_flg or self.batch_size is None
UsesBatchStatistics(layer, train_flg) == train_flg \/ layer.batch_size.none

\* BatchNormalization.forward with __forward: the layer after the call
BNLayerAfter(layer, x, train_flg) ==
    LET \* if self.running_mean is None: both become zeros(D)
        rm == IF layer.running_mean.none THEN <<0, 1>> ELSE layer.running_mean.v
        rv == IF layer.running_mean.none THEN <<0, 1>> ELSE layer.running_var.v
        mu == FMean(x.data)
        xc == [j \in 1..Len(x.data) |-> FSub(x.data[j], mu)]
        var == FMean([j \in 1..Len(xc) |-> FMul(xc[j], xc[j])])
    IN  IF UsesBatchStatistics(layer, train_flg)
        THEN [input_shape |-> Some(x.shape),
              batch_size |-> Some(x.shape[1]),
              xc |-> Some(xc),
              xn |-> Some(Normalised(xc, Std(var))),
              std |-> Some(Std(var)),
              running_mean |-> Some(IF train_flg THEN MovingAverage(rm, mu) ELSE rm),
              running_var |-> Some(IF train_flg THEN MovingAverage(rv, var) ELSE rv)]
        ELSE [layer EXCEPT !.input_shape = Some(x.shape),
                           !.running_mean = Some(rm),
                           !.running_var = Some(rv)]

\* xn of the call: from the batch statistics, or from the running ones
BNNormalised(layer, x, train_flg) ==
    LET after == BNLayerAfter(layer, x, train_flg) IN
    IF UsesBatchStatistics(layer, train_flg) THEN after.xn.v
    ELSE Normalised([j \in 1..Len(x.data) |-> FSub(x.data[j], after.running_mean.v)],
                    Std(after.running_var.v))

BNForward(x, train_flg) ==
    /\ train_flg => bnTrained < MaxTrain
    /\ bn' = BNLayerAfter(bn, x, train_flg)
    /\ bnOut' = [called |-> TRUE, x |-> x, train_flg |-> train_flg,
                 xn |-> BNNormalised(bn, x, train_flg)]
    /\ bnTrained' = IF train_flg THEN bnTrained + 1 ELSE bnTrained

NoBNOut == [called |-> FALSE, x |-> [data |-> <<>>, shape |-> <<>>],
            train_flg |-> FALSE, xn |-> Normalised(<<>>, Std(<<0, 1>>))]

\* BatchNormalization.__init__: running_mean and running_var default to None
\* and may be handed in.
BNFresh(running_mean, running_var) ==
    [input_shape |-> None, batch_size |-> None, xc |-> None, xn |-> None,
     std |-> None, running_mean |-> running_mean, running_var |-> running_var]

BNInit ==
    /\ bn = BNFresh(None, None)
    /\ bnOut = NoBNOut
    /\ bnTrained = 0

\* The layer built with or without running statistics handed in.
BNInitAny ==
    /\ bn \in {BNFresh(None, None), BNFresh(Some(<<1, 1>>), Some(<<1, 1>>))}
    /\ bnOut = NoBNOut
    /\ bnTrained = 0

(***************************************************************************)
(* SoftmaxWithLoss.  y = softmax(x) is a new torch tensor of shape (N, C); *)
(* its entries stay symbolic, and a gradient is written as the matrix      *)
(* `sub` and the number `div` of  dx = (y - sub) / div.                    *)
(***************************************************************************)
Rows(n) == 1..n

\* The label tensors offered: one-hot (N, C) or class indices (N,).  Each is
\* a tensor object of the caller (id 1); softmax returns a new object (id 2).
LabelTensors ==
    UNION {
        {[id |-> 1, shape |-> <<n, OutputSize>>, dtype |-> dt,
          data |-> [i \in Rows(n) |-> [c \in Classes |-> IF c = lab[i] THEN 1 ELSE 0]]]
            : lab \in [Rows(n) -> Classes], dt \in {"int64", "float64"}}
        \cup
        {[id |-> 1, shape |-> <<n>>, dtype |-> "int64",
          data |-> [i \in Rows(n) |-> [c \in {0} |-> lab[i]]]]
            : lab \in [Rows(n) -> Classes]}
        : n \in 1..MaxRows }

Softmax(n) == [id |-> 2, shape |-> <<n, OutputSize>>, dtype |-> "float64", data |-> <<>>]

\* The total element count of a tensor.
Numel(tensor) == Prod(tensor.shape)

\* tensor.size of a torch tensor is a bound method, not a number: two of
\* them are equal when they are the same method of the same object.
SizeAttribute(tensor) == [method |-> "size", self |-> tensor.id]

\* if self.t.size == self.y.size
TakesOneHotBranch(t, y) == SizeAttribute(t) = SizeAttribute(y)

\* dx[torch.arange(batch_size), self.t] -= 1: the (row, column) pairs indexed.
\* arange has shape (N,); it is broadcast against t's shape.
IndexPairs(t, n) ==
    IF Len(t.shape) = 1
    THEN {<<i, t.data[i][0]>> : i \in Rows(n)}
    ELSE {<<IF n = 1 THEN 1 ELSE p[2] + 1, t.data[p[1]][p[2]]>> : p \in Rows(t.shape[1]) \X Classes}

IndexRaises(t, n) ==
    \/ t.dtype # "int64"
    \/ Len(t.shape) = 2 /\ ~(n = 1 \/ t.shape[2] = 1 \/ n = t.shape[2])

SWLBackward(layer) ==
    IF layer.t.none THEN [status |-> "raised", branch |-> "none", sub |-> <<>>, div |-> 0]
    ELSE LET t == layer.t.v
             y == layer.y.v
             batch_size == t.shape[1]
         IN  IF TakesOneHotBranch(t, y)
             THEN [status |-> "ok", branch |-> "one-hot", sub |-> t.data, div |-> batch_size]
             ELSE IF IndexRaises(t, batch_size)
                  THEN [status |-> "raised", branch |-> "index", sub |-> <<>>, div |-> 0]
                  ELSE [status |-> "ok", branch |-> "index",
                        sub |-> [i \in Rows(y.shape[1]) |-> [c \in Classes |->
                                    IF <<i, c>> \in IndexPairs(t, batch_size) THEN 1 ELSE 0]],
                        div |-> batch_size]

SWLForward(t) ==
    /\ swl' = [t |-> Some(t), y |-> Some(Softmax(t.shape[1]))]
    /\ UNCHANGED swlOut

SWLBackwardCall ==
    /\ swlOut' = SWLBackward(swl)
    /\ UNCHANGED swl

NoSWLOut == [status |-> "none", branch |-> "none", sub |-> <<>>, div |-> 0]

SWLInit ==
    /\ swl = [t |-> None, y |-> None]
    /\ swlOut = NoSWLOut

(***************************************************************************)
(* The constructor's options.  A Python value bound to an attribute is a   *)
(* record: a device ("cpu", or "cuda" with its index) or a boolean.        *)
(***************************************************************************)
Cpu == [type |-> "cpu", index |-> 0]
Cuda(i) == [type |-> "cuda", index |-> i]
Bool(b) == [type |-> "bool", index |-> IF b THEN 1 ELSE 0]
NoValue == [type |-> "none", index |-> 0]

Devices == {Cpu} \cup {Cuda(i) : i \in 0..MaxCuda}

\* bool(v): False is falsy, a device (a non-empty string or a torch.device)
\* is truthy.
Truthy(v) == v.type \in {"cpu", "cuda"} \/ (v.type = "bool" /\ v.index = 1)

\* CNN.__init__(input_dim, conv_param, hidden_size, output_size,
\* weight_init_std, visualize=False, device="cpu"): the two attributes it
\* sets from its last two parameters.
CNNInit(visualize, device) == [device |-> device, visualize |-> visualize]

\* VGG16.__init__(..., device): super().__init__(input_dim, conv_param,
\* hidden_size, output_size, weight_init_std, device) passes device as the
\* sixth positional argument, CNN's `visualize`; CNN's device keeps its
\* default.  The parameters are then made with .to(self.device).
VGG16Init(device) ==
    LET self == CNNInit(device, Cpu) IN
    [constructed |-> TRUE, status |-> "ok", option |-> device,
     device |-> self.device, visualize |-> self.visualize,
     params_on |-> self.device,
     op |-> "init", x_from |-> NoValue, x_on |-> NoValue,
     t_from |-> NoValue, t_on |-> NoValue, is_final |-> FALSE, printed |-> FALSE]

NoNet ==
    [constructed |-> FALSE, status |-> "none", option |-> NoValue,
     device |-> NoValue, visualize |-> NoValue, params_on |-> NoValue,
     op |-> "none", x_from |-> NoValue, x_on |-> NoValue,
     t_from |-> NoValue, t_on |-> NoValue, is_final |-> FALSE, printed |-> FALSE]

\* network = VGG16(device=d), or VGG16(visualize=False, device=d) as main.py
\* calls it: VGG16.__init__ has no parameter `visualize`, the call raises
\* TypeError and no network is made.
Construct(d, passes_visualize) ==
    net' = IF passes_visualize
           THEN [NoNet EXCEPT !.status = "raised", !.option = d]
           ELSE VGG16Init(d)

\* predict(x, is_final): x = x.to(self.device); the images are printed when
\* self.visualize and is_final.
PredictCall(x_from, is_final) ==
    /\ net.constructed
    /\ net' = [net EXCEPT !.op = "predict", !.x_from = x_from, !.x_on = net.device,
                          !.t_from = NoValue, !.t_on = NoValue,
                          !.is_final = is_final,
                          !.printed = Truthy(net.visualize) /\ is_final]

\* gradient(x, t): x = x.to(self.device); t = t.to(self.device)
GradientCall(x_from, t_from) ==
    /\ net.constructed
    /\ net' = [net EXCEPT !.op = "gradient", !.x_from = x_from, !.x_on = net.device,
                          !.t_from = t_from, !.t_on = net.device,
                          !.is_final = FALSE, !.printed = FALSE]

AttrInit == net = NoNet

(***************************************************************************)
(* One Relu, Affine, Convolution or Pooling layer on its own.  Shapes here  *)
(* keep the batch axis.  A cached intermediate is recorded as the forward   *)
(* call that assigned it and the input of that call; a gradient as the      *)
(* cached intermediates its computation read.                               *)
(***************************************************************************)
LayerKinds == {"Relu", "Affine", "Convolution", "Pooling"}

\* The attributes forward assigns for backward to read.
CacheFields(kind) ==
    CASE kind = "Relu" -> {"mask"}
      [] kind = "Affine" -> {"original_x_shape", "x"}
      [] kind = "Convolution" -> {"x", "col", "col_W"}
      [] kind = "Pooling" -> {"x", "arg_max"}

\* The layer's parameters: an Affine of 8 features to OutputSize outputs, a
\* Convolution of OutputSize 1x1 filters over 2 channels.
LayerWShape(kind) ==
    IF kind = "Affine" THEN <<8, OutputSize>> ELSE <<OutputSize, 2, 1, 1>>
LayerBShape(kind) == <<OutputSize>>

\* The shapes of the tensors handed to forward.
LayerInputShapes == {<<1, 2, 2, 2>>, <<2, 2, 2, 2>>, <<1, 3, 2, 2>>, <<1, 8>>, <<0, 8>>}

\* The shapes of the gradients handed to backward.
LayerDoutShapes ==
    LayerInputShapes
    \cup {<<n, OutputSize>> : n \in 1..2}
    \cup {<<n, OutputSize, 2, 2>> : n \in 1..2}
    \cup {<<n, c, 1, 1>> : n \in 1..2, c \in 2..3}

NotCached == [call |-> 0, shape |-> <<>>]
Cached(call, shape) == [call |-> call, shape |-> shape]

\* What the layer's forward computes on an input of shape s, in this module's
\* shapes without the batch axis.
ForwardResult(kind, s) ==
    CASE kind = "Relu" -> Returned(s)
      [] kind = "Affine" ->
            IF Prod(s) = 0 THEN Raised
            ELSE AffineForward(LayerWShape(kind), LayerBShape(kind), Tail(s))
      [] kind = "Convolution" ->
            IF Len(s) # 4 THEN Raised
            ELSE ConvolutionForward(LayerWShape(kind), LayerBShape(kind), Tail(s), 1, 0)
      [] kind = "Pooling" ->
            IF Len(s) # 4 THEN Raised
            ELSE PoolingForward(Tail(s), PoolSize, PoolSize, PoolStride)

\* x.reshape(x.shape[0], -1) of Affine.forward raises on an empty tensor.
AffineReshapeRaises(s) == Prod(s) = 0

\* Affine.forward assigning original_x_shape on the first call only.
ForwardAssignsShapeOnce(kind, s) ==
    CASE kind = "Relu" -> {"mask"}
      [] kind = "Affine" ->
            (IF lyr.cache["original_x_shape"] = NotCached
             THEN {"original_x_shape"} ELSE {})
            \cup (IF AffineReshapeRaises(s) THEN {} ELSE {"x"})
      [] OTHER -> IF ForwardResult(kind, s).ok THEN CacheFields(kind) ELSE {}

\* The attributes a forward call on an input of shape s assigns before it
\* returns or raises.  Relu assigns its mask first; Affine assigns
\* original_x_shape, reshapes, assigns x, and only then multiplies;
\* Convolution and Pooling assign after all their computation.
ForwardAssigns(kind, s) ==
    CASE kind = "Relu" -> {"mask"}
      [] kind = "Affine" ->
            {"original_x_shape"} \cup (IF AffineReshapeRaises(s) THEN {} ELSE {"x"})
      [] OTHER -> IF ForwardResult(kind, s).ok THEN CacheFields(kind) ELSE {}

\* layer.forward(x), x a new tensor of shape s
ForwardCall(s) ==
    LET call == lyrCalls + 1
        r == ForwardResult(lyr.kind, s)
    IN  /\ lyrCalls' = call
        /\ lyr' = [lyr EXCEPT !.cache =
                      [f \in CacheFields(lyr.kind) |->
                          IF f \in ForwardAssigns(lyr.kind, s) THEN Cached(call, s)
                          ELSE lyr.cache[f]]]
        /\ lyrOut' = [op |-> "forward", status |-> IF r.ok THEN "ok" ELSE "raised",
                      shape |-> s, read |-> {},
                      returned |-> lyrOut.returned \cup (IF r.ok THEN {call} ELSE {})]

IsPrefix(s, t) == Len(s) <= Len(t) /\ SubSeq(t, 1, Len(s)) = s

\* Whether backward(dout) gets through its computation with the cache c.
BackwardReturns(kind, c, d) ==
    CASE kind = "Relu" ->
            \* dout[self.mask] = 0: a None mask selects everything, a boolean
            \* mask must have the shape of dout's leading axes
            c["mask"] = NotCached \/ IsPrefix(c["mask"].shape, d)
      [] kind = "Affine" ->
            \* dout . W^T, x^T . dout, dx.reshape(*original_x_shape)
            /\ c["x"] # NotCached
            /\ Len(d) >= 2
            /\ d[Len(d)] = LayerWShape(kind)[2]
            /\ d[Len(d) - 1] = c["x"].shape[1]
            /\ (Prod(d) \div LayerWShape(kind)[2]) * LayerWShape(kind)[1]
                  = Prod(c["original_x_shape"].shape)
      [] kind = "Convolution" ->
            \* dout.permute(0, 2, 3, 1).reshape(-1, FN), col^T . dout
            /\ c["col"] # NotCached
            /\ Len(d) = 4
            /\ Prod(d) % LayerWShape(kind)[1] = 0
            /\ Prod(d) \div LayerWShape(kind)[1] =
                  c["col"].shape[1] * Prod(SubSeq(ForwardResult(kind, c["col"].shape).shape, 2, 3))
      [] kind = "Pooling" ->
            \* dmax[arange(arg_max.size), arg_max.flatten()] = dout.flatten()
            /\ c["arg_max"] # NotCached
            /\ Len(d) = 4
            /\ Prod(d) = c["arg_max"].shape[1]
                            * Prod(ForwardResult(kind, c["arg_max"].shape).shape)

\* layer.backward(dout): it reads every cached attribute and assigns none.
BackwardCall(d) ==
    /\ lyrOut' = [op |-> "backward",
                  status |-> IF BackwardReturns(lyr.kind, lyr.cache, d) THEN "ok" ELSE "raised",
                  shape |-> d,
                  read |-> {lyr.cache[f] : f \in CacheFields(lyr.kind)},
                  returned |-> lyrOut.returned]
    /\ UNCHANGED <<lyr, lyrCalls>>

\* `returned` collects the forward calls that returned.
NoLayerOut == [op |-> "none", status |-> "none", shape |-> <<>>, read |-> {},
               returned |-> {}]

LayerFresh(kind) == [kind |-> kind, cache |-> [f \in CacheFields(kind) |-> NotCached]]

LayerInit ==
    /\ lyr = LayerFresh("Relu")
    /\ lyrCalls = 0
    /\ lyrOut = NoLayerOut

LayerInitAny ==
    /\ lyr \in {LayerFresh(kind) : kind \in LayerKinds}
    /\ lyrCalls = 0
    /\ lyrOut = NoLayerOut

(***************************************************************************)
(* Specifications.                                                         *)
(***************************************************************************)
Init == NetInit /\ BNInit /\ SWLInit /\ LayerInit /\ AttrInit

\* The network and everything its callers do with it.
Next ==
    /\ \/ predict
       \/ loss
       \/ gradient
       \/ \E e \in SmallEvals : accuracy_f1score(e)
       \/ optimizer_update
       \/ save_params
       \/ load_params
    /\ UNCHANGED <<bnVars, swlVars, lyrVars, net>>

Spec == Init /\ [][Next]_vars

\* A training run: forward, backward, evaluation and optimizer steps only.
NextTrain ==
    /\ \/ predict
       \/ loss
       \/ gradient
       \/ \E e \in SmallEvals : accuracy_f1score(e)
       \/ optimizer_update
    /\ UNCHANGED <<bnVars, swlVars, lyrVars, net>>

SpecTrain == Init /\ [][NextTrain]_vars

\* One evaluation of a freshly constructed network on each evaluation set.
InitEval ==
    /\ NetCtor
    /\ evalArgs \in EvalInputs(MaxSamples, MaxBatch, {FALSE})
    /\ BNInit
    /\ SWLInit
    /\ LayerInit
    /\ AttrInit

NextEval ==
    /\ lastOp = "init"
    /\ accuracy_f1score(evalArgs)
    /\ UNCHANGED <<bnVars, swlVars, lyrVars, net>>

SpecMetrics == InitEval /\ [][NextEval]_vars

\* The BatchNormalization layer on its own.
NextBN ==
    /\ \E x \in BNInputs, train_flg \in BOOLEAN : BNForward(x, train_flg)
    /\ UNCHANGED <<netVars, swlVars, lyrVars, net>>

InitBN == NetInit /\ BNInitAny /\ SWLInit /\ LayerInit /\ AttrInit

SpecBN == InitBN /\ [][NextBN]_vars

\* The SoftmaxWithLoss layer on its own.
NextSWL ==
    /\ \/ \E t \in LabelTensors : SWLForward(t)
       \/ SWLBackwardCall
    /\ UNCHANGED <<netVars, bnVars, lyrVars, net>>

SpecSWL == Init /\ [][NextSWL]_vars

\* One layer on its own: forward and backward calls in any order.
NextLayer ==
    /\ \/ \E s \in LayerInputShapes : lyrCalls < MaxForwards /\ ForwardCall(s)
       \/ \E d \in LayerDoutShapes : BackwardCall(d)
    /\ UNCHANGED <<netVars, bnVars, swlVars, net>>

InitLayer == NetInit /\ BNInit /\ SWLInit /\ LayerInitAny /\ AttrInit

SpecLayer == InitLayer /\ [][NextLayer]_vars

\* Networks constructed with a device option, and the calls that move their
\* inputs.
NextDevice ==
    /\ \/ \E d \in Devices, passes_visualize \in BOOLEAN : Construct(d, passes_visualize)
       \/ \E x_from \in Devices, is_final \in BOOLEAN : PredictCall(x_from, is_final)
       \/ \E x_from \in Devices, t_from \in Devices : GradientCall(x_from, t_from)
    /\ UNCHANGED <<netVars, bnVars, swlVars, lyrVars>>

SpecDevice == Init /\ [][NextDevice]_vars

(***************************************************************************)
(* The claims.                                                             *)
(***************************************************************************)
\* The parameter a layer is named after: Conv_i has W_i / b_i, Affine_j has
\* W_(13+j) / b_(13+j).
OwnIndex(L) == IF L[1] = "Conv" THEN L[2] ELSE 13 + L[2]

BoundToOwnParameters ==
    \A L \in ParamLayers :
        /\ layerW[L] = params[<<"W", OwnIndex(L)>>]
        /\ layerB[L] = params[<<"b", OwnIndex(L)>>]

\* C1: after load_params every parameterized layer's W and b are the loaded
\* tensors stored under that layer's own parameter names; no layer keeps a
\* pre-load tensor or is bound to another layer's parameter.
C1_LoadRebindsEveryLayer ==
    (lastOp = "load_params" /\ result = "ok") => BoundToOwnParameters

\* C2: in every state of a run of predict, loss, gradient, accuracy_f1score
\* and in-place optimizer updates, each parameterized layer's W and b are the
\* very tensor objects the parameter mapping holds under the layer's names,
\* so the layer reads the value an in-place update has written.
C2_LayersShareParameterTensors ==
    /\ BoundToOwnParameters
    /\ \A L \in ParamLayers :
          /\ heap[layerW[L]].val = heap[params[<<"W", OwnIndex(L)>>]].val
          /\ heap[layerB[L]].val = heap[params[<<"b", OwnIndex(L)>>]].val

\* C2's case: an optimizer step has updated the tensors after a gradient
\* call, and the last fully connected layer reads the updated tensor.
C2_Witness ==
    /\ lastOp = "optimizer_update"
    /\ gcall > 0
    /\ heap[layerW[<<"Affine", 3>>]].val > 0

\* The layers whose W (for a "W" name) or b is the tensor params[n].
Owners(n) ==
    {L \in ParamLayers : (IF n[1] = "W" THEN layerW[L] ELSE layerB[L]) = params[n]}

\* C3: gradient returns a mapping with the keys of the parameter mapping,
\* and each entry is the dW / db written during this call by the backward of
\* the one layer that owns the parameter of that name.
C3_GradientsNamedByOwner ==
    lastOp = "gradient" =>
        /\ result = "ok"
        /\ ret.kind = "grads"
        /\ DOMAIN ret.grads = DOMAIN params
        /\ \A n \in DOMAIN params :
              /\ Cardinality(Owners(n)) = 1
              /\ \A L \in Owners(n) :
                    /\ ret.grads[n] = Token(gcall, L, IF n[1] = "W" THEN "dW" ELSE "db")
                    /\ ret.grads[n] = (IF n[1] = "W" THEN layerdW[L] ELSE layerdb[L])

\* The positions in the trace of the calls of one layer's forward or backward.
CallsOf(L, op) == {k \in 1..Len(trace) : trace[k].layer = L /\ trace[k].op = op}

\* C4: one gradient call runs the forward of every non-terminal layer once
\* in insertion order, the forward and then the backward of the loss layer,
\* and the backward of every non-terminal layer once in reverse insertion
\* order, each backward given what the backward of the next layer returned.
C4_GradientCallOrder ==
    lastOp = "gradient" =>
        LET n == Len(layers) IN
        /\ Len(trace) = 2 * n + 2
        /\ \A i \in 1..n :
              /\ CallsOf(layers[i], "forward") = {i}
              /\ CallsOf(layers[i], "backward") = {2 * n + 3 - i}
              /\ trace[2 * n + 3 - i].inp = trace[2 * n + 2 - i].out
              /\ trace[i].inp = IF i = 1 THEN 0 ELSE trace[i - 1].out
        /\ CallsOf(LastLayer, "forward") = {n + 1}
        /\ CallsOf(LastLayer, "backward") = {n + 2}
        /\ trace[n + 1].inp = trace[n].out

LayersOfKind(kind) == {i \in 1..Len(layers) : layers[i][1] = kind}

\* C5 as stated: the constructor builds exactly 13 Convolution, 3 Pooling
\* and 3 Affine layers, the SoftmaxWithLoss layer outside the sequence.
C5_ThreePoolingLayers ==
    /\ Cardinality(LayersOfKind("Conv")) = 13
    /\ Cardinality(LayersOfKind("Pool")) = 3
    /\ Cardinality(LayersOfKind("Affine")) = 3
    /\ LayersOfKind("SoftmaxWithLoss") = {}

\* C5 amended: the constructor builds exactly 13 Convolution, 5 Pooling and
\* 3 Affine layers, the SoftmaxWithLoss layer outside the sequence.
C5_FivePoolingLayers ==
    /\ Cardinality(LayersOfKind("Conv")) = 13
    /\ Cardinality(LayersOfKind("Pool")) = 5
    /\ Cardinality(LayersOfKind("Affine")) = 3
    /\ LayersOfKind("SoftmaxWithLoss") = {}

\* C5's case: the constructed network has run an input through every layer
\* of the sequence.
C5_Witness ==
    /\ lastOp = "predict"
    /\ result = "ok"
    /\ Len(trace) = Len(layers)
    /\ Cardinality(LayersOfKind("Pool")) = 5

\* C6: when the predicted class is the true class of every sample,
\* accuracy_f1score returns accuracy 1, F1 1 and a confusion matrix with no
\* off-diagonal entry, whatever the batch size and the classes present.
C6_PerfectPredictionScoresOne ==
    (/\ lastOp = "accuracy_f1score"
     /\ result = "ok"
     /\ Len(evalArgs.pred) >= 1
     /\ evalArgs.pred = ToLabels(evalArgs.t))
    => /\ ret.metrics.accuracy = <<1, 1>>
       /\ ret.metrics.f1 = <<1, 1>>
       /\ \A a, b \in Classes : a # b => ret.metrics.cm[a][b] = 0

\* The backward cache of the BatchNormalization layer.
BNCache(layer) == <<layer.batch_size, layer.xc, layer.xn, layer.std>>

\* Normalising x with the layer's stored running mean and variance.
WithRunningStatistics(layer, x) ==
    Normalised([j \in 1..Len(x.data) |-> FSub(x.data[j], layer.running_mean.v)],
               Std(layer.running_var.v))

\* No moving-average step: the running statistics are what they were, or
\* the zeros they are first set to.
RunningStatisticsKept ==
    /\ bn'.running_mean = (IF bn.running_mean.none THEN Some(<<0, 1>>) ELSE bn.running_mean)
    /\ bn'.running_var = (IF bn.running_mean.none THEN Some(<<0, 1>>) ELSE bn.running_var)

\* C7 as stated: a forward call with training=false, in any layer state,
\* normalises with the running statistics, applies no moving-average update
\* and leaves the backward cache unchanged.
C7_InferenceLeavesCache ==
    [][\A x \in BNInputs :
          BNForward(x, FALSE) =>
              /\ bnOut'.xn = WithRunningStatistics(bn', x)
              /\ RunningStatisticsKept
              /\ BNCache(bn') = BNCache(bn)]_vars

\* The gradient for labels given as class indices: 1 subtracted at each
\* row's true class.
AtTrueClass(t) ==
    [i \in Rows(t.shape[1]) |-> [c \in Classes |-> IF c = t.data[i][0] THEN 1 ELSE 0]]

\* C8: backward returns (y - t) / batch_size exactly when t has as many
\* elements as y (one-hot labels), and otherwise y with 1 subtracted at each
\* row's true class, divided by batch_size.
C8_BranchMatchesEncoding ==
    [][(SWLBackwardCall /\ ~swl.t.none) =>
          swlOut' = IF Numel(swl.t.v) = Numel(swl.y.v)
                    THEN [status |-> "ok", branch |-> "one-hot",
                          sub |-> swl.t.v.data, div |-> swl.t.v.shape[1]]
                    ELSE [status |-> "ok", branch |-> "index",
                          sub |-> AtTrueClass(swl.t.v), div |-> swl.t.v.shape[1]]]_vars

\* C9: predict, loss, gradient and accuracy_f1score leave the parameter
\* mapping alone: every name maps to the same tensor object, with the same
\* value, as before the call.
C9_CallsKeepParameters ==
    [][lastOp' \in {"predict", "loss", "gradient", "accuracy_f1score"} =>
          /\ params' = params
          /\ \A n \in DOMAIN params : heap'[params[n]] = heap[params[n]]]_vars

\* C9's case: a gradient call has returned gradients, stored in the layers'
\* slots, on parameters an optimizer step had updated before.
C9_Witness ==
    /\ lastOp = "gradient"
    /\ result = "ok"
    /\ layerdW[<<"Conv", 1>>] = Token(gcall, <<"Conv", 1>>, "dW")
    /\ heap[params[<<"W", 1>>]].val > 0

ColumnSum(cm, c) == SumTo([r \in Classes |-> cm[r][c]], OutputSize - 1)
RowSum(cm, c) == SumTo(cm[c], OutputSize - 1)

\* C10: a class never predicted has precision 0, a class with no true
\* instance has recall 0, and no per-class division is by zero.
C10_ZeroDenominatorGivesZero ==
    (lastOp = "accuracy_f1score" /\ result = "ok") =>
        /\ \A c \in Classes :
              /\ ColumnSum(ret.metrics.cm, c) = 0 => ret.metrics.precision[c] = <<0, 1>>
              /\ RowSum(ret.metrics.cm, c) = 0 => ret.metrics.recall[c] = <<0, 1>>
        /\ \A d \in ret.metrics.divisions : d.by # 0

\* C10's case: an evaluation in which one class was never predicted, another
\* had no true instance, and a division was performed for a third count.
C10_Witness ==
    /\ lastOp = "accuracy_f1score"
    /\ result = "ok"
    /\ \E c \in Classes : ColumnSum(ret.metrics.cm, c) = 0 /\ RowSum(ret.metrics.cm, c) > 0
    /\ \E c \in Classes : RowSum(ret.metrics.cm, c) = 0 /\ ColumnSum(ret.metrics.cm, c) > 0
    /\ ret.metrics.divisions # {}

\* C11: on a Relu, Affine, Convolution or Pooling layer every forward call
\* that returns replaces all the cached intermediates, so after forward(x1)
\* and forward(x2) nothing cached by forward(x1) survives, and a backward
\* that follows is computed only from the intermediates of forward(x2).
C11_ForwardReplacesCache ==
    lyrCalls \in lyrOut.returned =>
        /\ \A f \in CacheFields(lyr.kind) : lyr.cache[f].call = lyrCalls
        /\ \A f, g \in CacheFields(lyr.kind) : lyr.cache[f] = lyr.cache[g]
        /\ lyrOut.op = "forward" =>
              \A f \in CacheFields(lyr.kind) : lyr.cache[f].shape = lyrOut.shape
        /\ lyrOut.op = "backward" =>
              /\ lyrOut.read = {lyr.cache[f] : f \in CacheFields(lyr.kind)}
              /\ \A c \in lyrOut.read : c.call = lyrCalls

\* C11's case: two forward calls have returned on an Affine layer and the
\* backward call that followed them has returned its gradient.
C11_Witness ==
    /\ lyr.kind = "Affine"
    /\ lyrOut.returned = {1, 2}
    /\ lyrCalls = 2
    /\ lyrOut.op = "backward"
    /\ lyrOut.status = "ok"

\* C12: a network constructed with the option device = d records d as its
\* device, places the parameters on d and has predict and gradient move
\* their inputs to d, for every d; the option is bound to no other
\* attribute: visualize keeps its default False.
C12_DeviceOptionRecorded ==
    (net.status = "ok" /\ net.constructed) =>
        /\ net.device = net.option
        /\ net.params_on = net.option
        /\ net.op \in {"predict", "gradient"} => net.x_on = net.option
        /\ net.op = "gradient" => net.t_on = net.option
        /\ net.visualize = Bool(FALSE)

====
